---------------------------- MODULE Spec2Model ----------------------------
(***************************************************************************)
(* Recipe recommendation core of jordyn-knock/youcode:                     *)
(*   - ingredient_match_score (src/ai model/incase.py, 29-96), the match   *)
(*     scorer, as a pure function over character strings;                  *)
(*   - get_recommendations (src/ai model/incase.py, 175-350), the          *)
(*     filter / score / rank pipeline, as a step machine.                  *)
(*                                                                         *)
(* Strings are sequences of one-character strings, so that lower() and     *)
(* strip() are computed rather than assumed.  Python floats are modelled   *)
(* as exact rationals <<n, d>> in lowest terms with d > 0.                 *)
(***************************************************************************)
EXTENDS Integers, Sequences, FiniteSets, TLC

VARIABLES
    \* ---- one call of ingredient_match_score ----
    args,               \* the actual parameters of the call
    frame,              \* the callee's locals when it returned ("branch" = "none" before)
    ret,                \* the value returned (a rational), <<0, 1>> before the call
    \* ---- one call of get_recommendations ----
    pc,                 \* position in get_recommendations
    prefs,              \* dict returned by get_user_preferences()
    recipe_db,          \* the recipe DataFrame: sequence of rows
    le_classes,         \* le_recipe.classes_
    oracle,             \* behaviour of the three oracles in this request
    user_ingredients,   \* local user_ingredients
    allow_substitutions,\* local allow_substitutions
    use_grocery,        \* local use_grocery
    selected_cuisine,   \* local selected_cuisine
    selected_meal_type, \* local selected_meal_type
    cuisines,           \* column predicted_cuisine
    meal_types,         \* column predicted_meal_type
    matching_recipes,   \* index labels of the rows of matching_recipes, in row order
    ingr_list,          \* local ingr_list of the scoring loop's current iteration
    scores,             \* local scores, later column ingredient_score
    model_score,        \* column model_score
    predictions,        \* infer(...)["output_0"]
    final_score,        \* column final_score
    ranked_recipes,     \* index labels of ranked_recipes, in row order
    infer_calls,        \* number of invocations of infer
    raised,             \* the exception caught at line 346, "none" if none
    log,                \* the last outcome message printed
    result,             \* the pair returned
    bsize,              \* local batch_size
    current_ingredients,    \* st.session_state.current_ingredients
    ingredient_processed,   \* st.session_state.ingredient_processed
    pantry,                 \* st.session_state.get("pantry")
    grocery,                \* st.session_state.get("grocery")
    user_prefs,             \* what get_user_preferences() returns
    uploaded_file,          \* the value of the file uploader
    stage,                  \* where the script run of the tab is
    event,                  \* the widget that started the script run
    status,                 \* the message in status_container
    recognized,             \* what recognizer.recognize did in this script run
    tab_prefs,              \* the tab's local prefs
    combined_ingredients,   \* the tab's local combined_ingredients
    notice                  \* the message under the Generate button

score_vars == <<args, frame, ret>>
rec_vars   == <<pc, prefs, recipe_db, le_classes, oracle, user_ingredients,
                allow_substitutions, use_grocery, selected_cuisine,
                selected_meal_type, cuisines, meal_types, matching_recipes,
                ingr_list, scores, predictions, model_score, final_score, ranked_recipes,
                infer_calls, raised, log, result, bsize>>
tab_vars   == <<current_ingredients, ingredient_processed, pantry, grocery,
                user_prefs, uploaded_file, stage, event, status, recognized,
                tab_prefs, combined_ingredients, notice>>
vars       == <<score_vars, rec_vars, tab_vars>>

---------------------------------------------------------------------------
(* Bounds of the model.                                                    *)

MaxUser   == 2      \* longest user ingredient list passed to the scorer
MaxRecipe == 3      \* longest recipe ingredient list passed to the scorer

---------------------------------------------------------------------------
(* Exact rationals for Python floats.                                      *)

Abs(x) == IF x < 0 THEN -x ELSE x

RECURSIVE GCD(_, _)
GCD(a, b) == IF b = 0 THEN a ELSE GCD(b, a % b)

Rat(n, d) ==
    LET g == GCD(Abs(n), Abs(d))
        s == IF d < 0 THEN -1 ELSE 1
    IN  <<(s * n) \div g, (s * d) \div g>>

RInt(n)    == <<n, 1>>
RAdd(a, b) == Rat(a[1] * b[2] + b[1] * a[2], a[2] * b[2])
RMul(a, b) == Rat(a[1] * b[1], a[2] * b[2])
RDiv(a, b) == Rat(a[1] * b[2], a[2] * b[1])
RLe(a, b)  == a[1] * b[2] <= b[1] * a[2]
RLt(a, b)  == a[1] * b[2] < b[1] * a[2]
RMin(a, b) == IF RLe(a, b) THEN a ELSE b

---------------------------------------------------------------------------
(* str.lower() and str.strip() on character sequences.                     *)

UpperCase ==
    ("A" :> "a") @@ ("B" :> "b") @@ ("C" :> "c") @@ ("D" :> "d") @@
    ("E" :> "e") @@ ("F" :> "f") @@ ("G" :> "g") @@ ("H" :> "h") @@
    ("I" :> "i") @@ ("J" :> "j") @@ ("K" :> "k") @@ ("L" :> "l") @@
    ("M" :> "m") @@ ("N" :> "n") @@ ("O" :> "o") @@ ("P" :> "p") @@
    ("Q" :> "q") @@ ("R" :> "r") @@ ("S" :> "s") @@ ("T" :> "t") @@
    ("U" :> "u") @@ ("V" :> "v") @@ ("W" :> "w") @@ ("X" :> "x") @@
    ("Y" :> "y") @@ ("Z" :> "z")

Whitespace == {" ", "\t", "\n", "\r"}

lower(s) ==
    [k \in DOMAIN s |-> IF s[k] \in DOMAIN UpperCase THEN UpperCase[s[k]] ELSE s[k]]

RECURSIVE lstrip(_)
lstrip(s) ==
    IF s # <<>> /\ Head(s) \in Whitespace THEN lstrip(Tail(s)) ELSE s

RECURSIVE rstrip(_)
rstrip(s) ==
    IF s # <<>> /\ s[Len(s)] \in Whitespace
    THEN rstrip(SubSeq(s, 1, Len(s) - 1))
    ELSE s

strip(s) == rstrip(lstrip(s))

\* i.lower().strip(), the normal form used throughout the scorer
normalize(s) == strip(lower(s))

---------------------------------------------------------------------------
(* Module constants of incase.py.                                          *)

SUBSTITUTIONS ==
       (<<"m","i","l","k">> :>
        <<<<"a","l","m","o","n","d"," ","m","i","l","k">>,
          <<"s","o","y"," ","m","i","l","k">>,
          <<"o","a","t"," ","m","i","l","k">>,
          <<"c","o","c","o","n","u","t"," ","m","i","l","k">>>>)
    @@ (<<"b","u","t","t","e","r">> :>
        <<<<"m","a","r","g","a","r","i","n","e">>,
          <<"c","o","c","o","n","u","t"," ","o","i","l">>,
          <<"o","l","i","v","e"," ","o","i","l">>>>)
    @@ (<<"s","u","g","a","r">> :>
        <<<<"h","o","n","e","y">>,
          <<"m","a","p","l","e"," ","s","y","r","u","p">>,
          <<"a","g","a","v","e"," ","n","e","c","t","a","r">>,
          <<"b","r","o","w","n"," ","s","u","g","a","r">>>>)
    @@ (<<"e","g","g">> :>
        <<<<"e","g","g"," ","s","u","b","s","t","i","t","u","t","e">>,
          <<"f","l","a","x"," ","e","g","g">>>>)
    @@ (<<"f","l","o","u","r">> :>
        <<<<"a","l","m","o","n","d"," ","f","l","o","u","r">>,
          <<"c","o","c","o","n","u","t"," ","f","l","o","u","r">>,
          <<"w","h","o","l","e"," ","w","h","e","a","t"," ","f","l","o","u","r">>>>)
    @@ (<<"s","a","l","t">> :>
        <<<<"s","e","a"," ","s","a","l","t">>,
          <<"k","o","s","h","e","r"," ","s","a","l","t">>>>)
    @@ (<<"b","a","k","i","n","g"," ","p","o","w","d","e","r">> :>
        <<<<"b","a","k","i","n","g"," ","s","o","d","a">>>>)
    @@ (<<"c","h","e","e","s","e">> :>
        <<<<"c","o","l","b","y"," ","j","a","c","k">>,
          <<"m","o","n","t","e","r","e","y"," ","j","a","c","k">>,
          <<"c","h","e","d","d","a","r">>,
          <<"m","o","z","z","e","r","e","l","l","a">>>>)
    @@ (<<"c","r","e","a","m">> :>
        <<<<"c","o","c","o","n","u","t"," ","c","r","e","a","m">>,
          <<"c","a","s","h","e","w"," ","c","r","e","a","m">>,
          <<"s","o","u","r"," ","c","r","e","a","m">>>>)
    @@ (<<"v","a","n","i","l","l","a"," ","e","x","t","r","a","c","t">> :>
        <<<<"v","a","n","i","l","l","a"," ","b","e","a","n">>,
          <<"v","a","n","i","l","l","a"," ","p","a","s","t","e">>>>)
    @@ (<<"o","i","l">> :>
        <<<<"c","a","n","o","l","a"," ","o","i","l">>,
          <<"v","e","g","e","t","a","b","l","e"," ","o","i","l">>>>)

DEFAULT_INGREDIENTS ==
    {<<"s","a","l","t">>,
     <<"w","a","t","e","r">>,
     <<"o","i","l">>,
     <<"p","e","p","p","e","r">>,
     <<"w","a","r","m"," ","w","a","t","e","r">>,
     <<"s","a","l","t"," ","a","n","d"," ","p","e","p","p","e","r">>,
     <<"s","a","l","t"," ","p","e","p","p","e","r">>}

SAMPLE_INGREDIENTS == << <<"y","e","a","s","t">>, <<"f","l","o","u","r">> >>

beta_default == <<1, 5>>        \* beta: float = 0.2

---------------------------------------------------------------------------
(* ingredient_match_score.                                                 *)

user_explicit(user) == {normalize(user[k]) : k \in DOMAIN user}

augmented_user_set(user) == user_explicit(user) \cup DEFAULT_INGREDIENTS

\* variant: the default ingredients are not set aside
recipe_non_default_keeping_defaults(recipe) ==
    {normalize(recipe[k]) : k \in DOMAIN recipe}

recipe_non_default(recipe) ==
    {normalize(recipe[k]) :
        k \in {j \in DOMAIN recipe : normalize(recipe[j]) \notin DEFAULT_INGREDIENTS}}

\* variant: half credit for a substitute whether or not substitutions are allowed
credit_any_substitute(ingr, user, substitutions_allowed) ==
    LET ingr_norm == normalize(ingr)
        aug       == augmented_user_set(user)
    IN  IF ingr_norm \in aug
        THEN RInt(1)
        ELSE IF ingr_norm \in DOMAIN SUBSTITUTIONS
                /\ \E k \in DOMAIN SUBSTITUTIONS[ingr_norm] :
                       normalize(SUBSTITUTIONS[ingr_norm][k]) \in aug
             THEN <<1, 2>>
             ELSE RInt(0)

\* what one pass of the loop at lines 77-83 adds to matched
credit(ingr, user, substitutions_allowed) ==
    LET ingr_norm == normalize(ingr)
        aug       == augmented_user_set(user)
    IN  IF ingr_norm \in aug
        THEN RInt(1)
        ELSE IF substitutions_allowed /\ ingr_norm \in DOMAIN SUBSTITUTIONS
             THEN IF \E k \in DOMAIN SUBSTITUTIONS[ingr_norm] :
                         normalize(SUBSTITUTIONS[ingr_norm][k]) \in aug
                  THEN <<1, 2>>
                  ELSE RInt(0)
             ELSE RInt(0)

RECURSIVE matched(_, _, _)
matched(user, recipe, substitutions_allowed) ==
    IF recipe = <<>>
    THEN RInt(0)
    ELSE RAdd(matched(user, SubSeq(recipe, 1, Len(recipe) - 1), substitutions_allowed),
              credit(recipe[Len(recipe)], user, substitutions_allowed))

base_score(user, recipe, substitutions_allowed) ==
    RDiv(matched(user, recipe, substitutions_allowed), RInt(Len(recipe)))

RECURSIVE used_explicit(_, _)
used_explicit(user, recipe) ==
    IF recipe = <<>>
    THEN 0
    ELSE used_explicit(user, Tail(recipe))
         + (IF normalize(Head(recipe)) \in user_explicit(user) THEN 1 ELSE 0)

\* variant: the fraction is taken over the list as passed, not over the set
bonus_over_list(user, recipe) ==
    IF user # <<>>
    THEN Rat(used_explicit(user, recipe), Len(user))
    ELSE RInt(0)

bonus(user, recipe) ==
    IF user_explicit(user) # {}
    THEN Rat(used_explicit(user, recipe), Cardinality(user_explicit(user)))
    ELSE RInt(0)

bonus_factor(user, recipe, beta) == RAdd(RInt(1), RMul(beta, bonus(user, recipe)))

\* variant: no cap
uncapped(score) == score

\* min(final_score, 1.0)
capped(score) == RMin(score, RInt(1))

\* the locals of the call and its return value, by the branch taken
score_frame(user, recipe, substitutions_allowed, user_willing_to_buy_more, beta) ==
    IF ~user_willing_to_buy_more
    THEN [branch |-> "strict",
          ret    |-> IF ~(recipe_non_default(recipe) \subseteq user_explicit(user))
                     THEN RInt(0) ELSE RInt(1)]
    ELSE IF Len(recipe) = 0
    THEN [branch |-> "empty", ret |-> RInt(1)]
    ELSE LET b == base_score(user, recipe, substitutions_allowed)
             f == RMul(b, bonus_factor(user, recipe, beta))
         IN  [branch      |-> "flexible",
              total       |-> Len(recipe),
              matched     |-> matched(user, recipe, substitutions_allowed),
              base_score  |-> b,
              bonus       |-> bonus(user, recipe),
              final_score |-> f,
              ret         |-> capped(f)]

ingredient_match_score(user, recipe, subs_allowed, willing, beta) ==
    score_frame(user, recipe, subs_allowed, willing, beta).ret

---------------------------------------------------------------------------
(* The scorer on its own: every call with lists over the vocabularies.     *)

SeqsUpTo(S, n) == UNION {[1..k -> S] : k \in 0..n}

\* raw strings of user lists: milk, one of milk's substitutes, a spelling of
\* flour that needs lower() and strip(), a default ingredient
UserVocabulary ==
    {<<"m","i","l","k">>,
     <<" ","A","l","m","o","n","d"," ","M","i","l","k">>,
     <<"F","L","O","U","R"," ">>,
     <<"S","a","l","t">>}

\* raw strings of recipe lists: egg has substitutes no user list holds
RecipeVocabulary ==
    {<<"m","i","l","k">>,
     <<"f","l","o","u","r">>,
     <<"S","a","l","t">>,
     <<"E","g","g"," ">>}

NoFrame == [branch |-> "none"]

---------------------------------------------------------------------------
(* get_recommendations: data of one request.                               *)

MaxSmall  == 2      \* longest freely composed corpus
MaxCorpus == 14     \* longest corpus

batch_size == 500

Italian   == <<"I","t","a","l","i","a","n">>
Mexican   == <<"M","e","x","i","c","a","n">>
breakfast == <<"b","r","e","a","k","f","a","s","t">>
snacks    == <<"s","n","a","c","k","s">>

USER_TO_CATEGORY ==
       (<<"B","r","e","a","k","f","a","s","t">> :> breakfast)
    @@ (<<"F","u","l","l"," ","M","e","a","l">> :> <<"m","e","a","l","s">>)
    @@ (<<"S","w","e","e","t"," ","T","r","e","a","t">> :>
            <<"s","w","e","e","t"," ","t","r","e","a","t">>)
    @@ (<<"S","n","a","c","k">> :> snacks)

unknown == <<"u","n","k","n","o","w","n">>

\* the cell types of column ingredients_raw
RawList(l) == [kind |-> "list", val |-> l]    \* a Python list
RawStr(l)  == [kind |-> "str",  val |-> l]    \* the repr of a Python list
RawNaN     == [kind |-> "nan",  val |-> <<>>] \* neither (a missing cell)

\* the recipes corpora are made of; "text" stands for the recipe's feature text
Pool ==
    << [text |-> "A",
        ingredients     |-> << <<"f","l","o","u","r">>, <<"w","a","t","e","r">> >>,
        ingredients_raw |-> RawList(<< <<"F","l","o","u","r">>,
                                       <<"w","a","t","e","r">> >>)],
       [text |-> "B",
        ingredients     |-> << <<"f","l","o","u","r">>, <<"e","g","g">> >>,
        ingredients_raw |-> RawList(<< <<"e","g","g">> >>)],
       [text |-> "C",
        ingredients     |-> << <<"f","l","o","u","r">>, <<"f","l","o","u","r">> >>,
        ingredients_raw |-> RawNaN],
       [text |-> "D",
        ingredients     |-> << <<"y","e","a","s","t">> >>,
        ingredients_raw |-> RawStr(<< <<"S","a","l","t"," ">>,
                                      <<"y","e","a","s","t">> >>)],
       [text |-> "E",
        ingredients     |-> << >>,
        ingredients_raw |-> RawNaN],
       [text |-> "F",
        ingredients     |-> << <<"m","i","l","k">> >>,
        ingredients_raw |-> RawList(<< <<"m","i","l","k">>,
                                       <<"f","l","o","u","r">> >>)] >>

PoolSize == Len(Pool)

\* what the two classifiers answer for each feature text
CuisineLabels ==
    [t \in {"A", "B", "C", "D", "E", "F"} |->
        CASE t = "C" -> <<"i","t","a","l","i","a","n">>
          [] t = "D" -> <<"I","T","A","L","I","A","N">>
          [] t = "E" -> Mexican
          [] OTHER   -> Italian]

MealLabels ==
    [t \in {"A", "B", "C", "D", "E", "F"} |->
        CASE t = "B" -> <<"B","r","e","a","k","f","a","s","t">>
          [] t = "F" -> <<"B","R","E","A","K","F","A","S","T">>
          [] OTHER   -> breakfast]

\* row k of a corpus: a pool recipe with id k
Row(k, p) == [id |-> k, text |-> Pool[p].text, ingredients |-> Pool[p].ingredients,
              ingredients_raw |-> Pool[p].ingredients_raw]

SmallCorpora ==
    UNION {{[k \in 1..n |-> Row(k, c[k])] : c \in [1..n -> 1..PoolSize]} :
              n \in 1..MaxSmall}

\* the pool repeated cyclically from offset o
Cyclic(n, o) == [k \in 1..n |-> Row(k, ((k - 1 + o) % PoolSize) + 1)]

BigCorpora == {Cyclic(n, o) : n \in (MaxCorpus - 2)..MaxCorpus, o \in 0..(PoolSize - 1)}

Ids(corpus) == [k \in DOMAIN corpus |-> corpus[k].id]

RECURSIVE Without(_, _)
Without(s, x) ==
    IF s = <<>> THEN <<>>
    ELSE IF Head(s) \in x THEN Without(Tail(s), x)
         ELSE <<Head(s)>> \o Without(Tail(s), x)

\* a request's corpus and le_recipe.classes_
Inputs ==
    UNION {{[corpus |-> c, classes |-> cl] :
               cl \in {Ids(c), Without(Ids(c), {2}), <<>>}} : c \in SmallCorpora}
    \cup
    UNION {{[corpus |-> c, classes |-> cl] :
               cl \in {Ids(c), Without(Ids(c), {2, 5})}} : c \in BigCorpora}

\* the shapes of infer's scores: the same everywhere, growing with the row,
\* growing with the column, different along every row and every column.
\* Many rows come with scores that differ from row to row, so that the
\* number of rankings of equal scores stays small.
Patterns(rows) ==
    IF rows <= MaxSmall THEN {"flat", "rows", "cols", "cells"} ELSE {"rows", "cells"}

PrefsSet ==
    [cuisine : {Italian, Mexican},
     meal_type : {<<"B","r","e","a","k","f","a","s","t">>, <<"B","r","u","n","c","h">>},
     allow_substitutions : BOOLEAN,
     use_grocery : BOOLEAN]

\* infer(...)["output_0"]: one row per recipe passed, one column per class
infer_output(pattern, rows, cols) ==
    [i \in 1..rows |-> [j \in 1..cols |->
        CASE pattern = "flat" -> <<1, 2>>
          [] pattern = "rows" -> Rat(i, rows + 1)
          [] pattern = "cols" -> Rat(j, cols + 1)
          [] OTHER            ->
                LET n == IF rows < cols THEN cols ELSE rows
                IN  Rat(((i + j) % n) + 1, n + 1)]]

NoResult   == [kind |-> "pending"]
NoneNone   == [kind |-> "None, None"]                    \* return None, None
Pair(t, o) == [kind |-> "rows", top |-> t, others |-> o]  \* return top_recipe, other_recipes

---------------------------------------------------------------------------
(* get_recommendations: helpers.                                           *)

Range(s) == {s[k] : k \in DOMAIN s}

\* list(a_set): the elements once each, in an order Python does not specify
ListsOf(S) ==
    {f \in [1..Cardinality(S) -> S] : \A a, b \in DOMAIN f : a # b => f[a] # f[b]}

\* clf.predict(batch): one label per feature text, in order
predict(labels, batch) == [k \in DOMAIN batch |-> labels[batch[k]]]

\* the loop "for i in range(0, len(recipe_db), batch_size)" of lines 229-232
\* variant: each batch's labels are put in front of the earlier ones
RECURSIVE predict_in_batches_prepend(_, _, _, _)
predict_in_batches_prepend(labels, texts, i, size) ==
    IF i >= Len(texts)
    THEN <<>>
    ELSE LET hi == IF i + size < Len(texts) THEN i + size ELSE Len(texts)
         IN  predict_in_batches_prepend(labels, texts, i + size, size)
             \o predict(labels, SubSeq(texts, i + 1, hi))

RECURSIVE predict_in_batches(_, _, _, _)
predict_in_batches(labels, texts, i, size) ==
    IF i >= Len(texts)
    THEN <<>>
    ELSE LET hi == IF i + size < Len(texts) THEN i + size ELSE Len(texts)
         IN  predict(labels, SubSeq(texts, i + 1, hi))
             \o predict_in_batches(labels, texts, i + size, size)

\* the boolean mask of lines 245-248, as the kept index labels in row order
RECURSIVE filter_rows(_, _, _, _, _)
filter_rows(cs, ms, cuisine, meal, k) ==
    IF k > Len(cs)
    THEN <<>>
    ELSE (IF lower(cs[k]) = cuisine /\ lower(ms[k]) = meal THEN <<k>> ELSE <<>>)
         \o filter_rows(cs, ms, cuisine, meal, k + 1)

\* the values ingr_list can have at line 281 for one recipe
effective_ingredients(recipe) ==
    LET raw_ingr == recipe.ingredients_raw
    IN  IF raw_ingr.kind \in {"list", "str"}      \* eval() of the repr is the list
        THEN ListsOf(Range(recipe.ingredients) \cup Range(raw_ingr.val))
        ELSE {recipe.ingredients}

Select(s, ps) == [k \in DOMAIN ps |-> s[ps[k]]]

\* the positions kept by the mask ingredient_score > 0 of line 288
RECURSIVE positive_rows(_, _)
positive_rows(s, k) ==
    IF k > Len(s)
    THEN <<>>
    ELSE (IF RLt(RInt(0), s[k]) THEN <<k>> ELSE <<>>) \o positive_rows(s, k + 1)

\* variant: no row is dropped in either mode
kept_rows_all(ingredient_score, willing) ==
    [k \in DOMAIN ingredient_score |-> k]

\* lines 287-288: the rows that stay, as positions
kept_rows(ingredient_score, willing) ==
    IF ~willing
    THEN positive_rows(ingredient_score, 1)
    ELSE [k \in DOMAIN ingredient_score |-> k]

\* variant: the frame is never found empty
never_empty(rows) == FALSE

\* len(matching_recipes) == 0, line 252; matching_recipes.empty, line 289
empty(rows) == Len(rows) = 0

\* np.where(recipe_ids == recipe_id)[0]
RECURSIVE where(_, _, _)
where(classes, recipe_id, k) ==
    IF k > Len(classes)
    THEN <<>>
    ELSE (IF classes[k] = recipe_id THEN <<k>> ELSE <<>>) \o where(classes, recipe_id, k + 1)

\* the predictions the loop of lines 323-327 reads out of bounds, if any
index_error(ids, classes, preds) ==
    \E i \in DOMAIN ids :
        /\ ids[i] \in Range(classes)
        /\ \/ i > Len(preds)
           \/ where(classes, ids[i], 1)[1] > Len(preds[i])

\* variant: every recipe reads the last column of its row
RECURSIVE assign_model_scores_last_column(_, _, _, _)
assign_model_scores_last_column(ids, classes, preds, i) ==
    IF i = 0
    THEN [k \in DOMAIN ids |-> RInt(0)]
    ELSE LET before == assign_model_scores_last_column(ids, classes, preds, i - 1)
         IN  IF ids[i] \in Range(classes)
             THEN [k \in DOMAIN ids |->
                      IF ids[k] = ids[i] THEN preds[i][Len(classes)] ELSE before[k]]
             ELSE before

\* lines 320-327: the column model_score after the first i passes of the loop
RECURSIVE assign_model_scores(_, _, _, _)
assign_model_scores(ids, classes, preds, i) ==
    IF i = 0
    THEN [k \in DOMAIN ids |-> RInt(0)]
    ELSE LET before == assign_model_scores(ids, classes, preds, i - 1)
         IN  IF ids[i] \in Range(classes)
             THEN LET idx == where(classes, ids[i], 1)
                  IN  [k \in DOMAIN ids |->
                          IF ids[k] = ids[i] THEN preds[i][idx[1]] ELSE before[k]]
             ELSE before

\* line 330
weighted(ingredient_score, m_score) ==
    RAdd(RMul(ingredient_score, <<19, 20>>), RMul(m_score, <<1, 20>>))

\* sort_values(by='final_score', ascending=False) with the default, unstable
\* kind: the orders of the positions P that are non-increasing in fs
RECURSIVE sort_values(_, _)
sort_values(P, fs) ==
    IF P = {}
    THEN {<<>>}
    ELSE LET first == {p \in P : \A q \in P : RLe(fs[q], fs[p])}
         IN  UNION {{<<p>> \o rest : rest \in sort_values(P \ {p}, fs)} : p \in first}

\* variant: one row more
others_slice_12(ranked) ==
    SubSeq(ranked, 2, IF Len(ranked) < 12 THEN Len(ranked) ELSE 12)

\* iloc[1:11]
others_slice(ranked) ==
    SubSeq(ranked, 2, IF Len(ranked) < 11 THEN Len(ranked) ELSE 11)

---------------------------------------------------------------------------
(* get_recommendations: the steps.                                         *)

\* the handler of lines 346-350
Except(e) ==
    /\ raised' = e
    /\ log'    = "Error generating recommendations"
    /\ result' = NoneNone
    /\ pc'     = "done"

\* lines 179-201: load the models, read the preferences
Load ==
    /\ pc = "start"
    /\ \E found \in BOOLEAN :
        IF found
        THEN /\ prefs' = [ingredients |-> SAMPLE_INGREDIENTS] @@ prefs
             /\ user_ingredients' = SAMPLE_INGREDIENTS
             /\ selected_cuisine' = lower(prefs.cuisine)
             /\ selected_meal_type' =
                    IF prefs.meal_type \in DOMAIN USER_TO_CATEGORY
                    THEN USER_TO_CATEGORY[prefs.meal_type] ELSE unknown
             /\ allow_substitutions' = prefs.allow_substitutions
             /\ use_grocery' = prefs.use_grocery
             /\ pc' = "predict_cuisine"
             /\ UNCHANGED <<raised, log, result>>
        ELSE /\ Except("FileNotFoundError")
             /\ UNCHANGED <<prefs, user_ingredients, selected_cuisine,
                            selected_meal_type, allow_substitutions, use_grocery>>
    /\ UNCHANGED <<recipe_db, le_classes, oracle, cuisines, meal_types,
                   matching_recipes, ingr_list, scores, predictions, model_score,
                   final_score, ranked_recipes, infer_calls, score_vars, bsize, tab_vars>>

Texts == [k \in DOMAIN recipe_db |-> recipe_db[k].text]

\* lines 225-233
PredictCuisine ==
    /\ pc = "predict_cuisine"
    /\ \E outcome \in {"ok", "throws", "malformed"} :
        CASE outcome = "ok" ->
                /\ cuisines' = predict_in_batches(oracle.cuisine, Texts, 0, bsize)
                /\ pc' = "predict_meal"
                /\ UNCHANGED <<raised, log, result>>
          [] outcome = "throws" ->
                /\ Except("cuisine_clf.predict raised")
                /\ UNCHANGED cuisines
          [] OTHER ->       \* a batch comes back one label short: line 233 raises
                /\ Except("ValueError")
                /\ UNCHANGED cuisines
    /\ UNCHANGED <<prefs, recipe_db, le_classes, oracle, user_ingredients,
                   allow_substitutions, use_grocery, selected_cuisine,
                   selected_meal_type, meal_types, matching_recipes, ingr_list,
                   scores, predictions, model_score, final_score, ranked_recipes,
                   infer_calls, score_vars, bsize, tab_vars>>

\* lines 235-242
PredictMealType ==
    /\ pc = "predict_meal"
    /\ \E outcome \in {"ok", "throws", "malformed"} :
        CASE outcome = "ok" ->
                /\ meal_types' = predict_in_batches(oracle.meal, Texts, 0, bsize)
                /\ pc' = "filter"
                /\ UNCHANGED <<raised, log, result>>
          [] outcome = "throws" ->
                /\ Except("meal_clf.predict raised")
                /\ UNCHANGED meal_types
          [] OTHER ->
                /\ Except("ValueError")
                /\ UNCHANGED meal_types
    /\ UNCHANGED <<prefs, recipe_db, le_classes, oracle, user_ingredients,
                   allow_substitutions, use_grocery, selected_cuisine,
                   selected_meal_type, cuisines, matching_recipes, ingr_list,
                   scores, predictions, model_score, final_score, ranked_recipes,
                   infer_calls, score_vars, bsize, tab_vars>>

\* lines 244-254
Filter ==
    /\ pc = "filter"
    /\ matching_recipes' =
           filter_rows(cuisines, meal_types, selected_cuisine, selected_meal_type, 1)
    /\ IF empty(matching_recipes')
       THEN /\ log' = "No matching recipes found"
            /\ result' = NoneNone
            /\ pc' = "done"
       ELSE /\ pc' = "score"
            /\ UNCHANGED <<log, result>>
    /\ UNCHANGED <<prefs, recipe_db, le_classes, oracle, user_ingredients,
                   allow_substitutions, use_grocery, selected_cuisine,
                   selected_meal_type, cuisines, meal_types, ingr_list, scores,
                   predictions, model_score, final_score, ranked_recipes,
                   infer_calls, raised, score_vars, bsize, tab_vars>>

\* lines 266-282: one pass of the scoring loop
ScoreRecipe ==
    /\ pc = "score"
    /\ Len(scores) < Len(matching_recipes)
    /\ LET recipe == recipe_db[matching_recipes[Len(scores) + 1]]
       IN  \E l \in effective_ingredients(recipe) :
              /\ ingr_list' = l
              /\ scores' = Append(scores,
                     ingredient_match_score(user_ingredients, l, allow_substitutions,
                                            use_grocery, beta_default))
    /\ UNCHANGED <<pc, prefs, recipe_db, le_classes, oracle, user_ingredients,
                   allow_substitutions, use_grocery, selected_cuisine,
                   selected_meal_type, cuisines, meal_types, matching_recipes,
                   predictions, model_score, final_score, ranked_recipes,
                   infer_calls, raised, log, result, score_vars, bsize, tab_vars>>

\* lines 284-291: the scores become a column; strict mode drops the zeros
DropInfeasible ==
    /\ pc = "score"
    /\ Len(scores) = Len(matching_recipes)
    /\ LET keep == kept_rows(scores, use_grocery)
       IN  /\ matching_recipes' = Select(matching_recipes, keep)
           /\ scores' = Select(scores, keep)
           /\ IF ~use_grocery /\ empty(keep)
              THEN /\ log' = "No recipes found that use only your ingredients."
                   /\ result' = NoneNone
                   /\ pc' = "done"
              ELSE /\ pc' = "infer"
                   /\ UNCHANGED <<log, result>>
    /\ UNCHANGED <<prefs, recipe_db, le_classes, oracle, user_ingredients,
                   allow_substitutions, use_grocery, selected_cuisine,
                   selected_meal_type, cuisines, meal_types, ingr_list,
                   predictions, model_score, final_score, ranked_recipes,
                   infer_calls, raised, score_vars, bsize, tab_vars>>

\* lines 297-312: the relevance model is called once, on all remaining rows
Infer ==
    /\ pc = "infer"
    /\ infer_calls' = infer_calls + 1
    /\ \E outcome \in {"ok", "throws", "malformed"},
          pattern \in Patterns(Len(matching_recipes)) :
        CASE outcome = "ok" ->
                /\ predictions' = infer_output(pattern,
                                      Len(matching_recipes), Len(le_classes))
                /\ pc' = "model_score"
                /\ UNCHANGED <<raised, log, result>>
          [] outcome = "throws" ->
                /\ Except("infer raised")
                /\ UNCHANGED predictions
          [] OTHER ->       \* the output has one row too few
                /\ predictions' = infer_output(pattern,
                                      Len(matching_recipes) - 1, Len(le_classes))
                /\ pc' = "model_score"
                /\ UNCHANGED <<raised, log, result>>
    /\ UNCHANGED <<prefs, recipe_db, le_classes, oracle, user_ingredients,
                   allow_substitutions, use_grocery, selected_cuisine,
                   selected_meal_type, cuisines, meal_types, matching_recipes,
                   ingr_list, scores, model_score, final_score, ranked_recipes,
                   score_vars, bsize, tab_vars>>

MatchingIds == [k \in DOMAIN matching_recipes |-> recipe_db[matching_recipes[k]].id]

\* lines 316-330
ModelScore ==
    /\ pc = "model_score"
    /\ IF index_error(MatchingIds, le_classes, predictions)
       THEN /\ Except("IndexError")
            /\ UNCHANGED <<model_score, final_score>>
       ELSE /\ model_score' = assign_model_scores(MatchingIds, le_classes,
                                  predictions, Len(MatchingIds))
            /\ final_score' = [k \in DOMAIN scores |->
                                  weighted(scores[k], model_score'[k])]
            /\ pc' = "sort"
            /\ UNCHANGED <<raised, log, result>>
    /\ UNCHANGED <<prefs, recipe_db, le_classes, oracle, user_ingredients,
                   allow_substitutions, use_grocery, selected_cuisine,
                   selected_meal_type, cuisines, meal_types, matching_recipes,
                   ingr_list, scores, predictions, ranked_recipes, infer_calls,
                   score_vars, bsize, tab_vars>>

\* lines 332-344
Rank ==
    /\ pc = "sort"
    /\ \E r \in sort_values(DOMAIN final_score, final_score) :
        /\ ranked_recipes' = r
        /\ IF Len(r) > 0
           THEN /\ result' = Pair(r[1], IF Len(r) > 1 THEN others_slice(r) ELSE <<>>)
                /\ log' = "Top recipe"
           ELSE /\ result' = NoneNone
                /\ log' = "No suitable recipes found"
    /\ pc' = "done"
    /\ UNCHANGED <<prefs, recipe_db, le_classes, oracle, user_ingredients,
                   allow_substitutions, use_grocery, selected_cuisine,
                   selected_meal_type, cuisines, meal_types, matching_recipes,
                   ingr_list, scores, predictions, model_score, final_score,
                   infer_calls, raised, score_vars, bsize, tab_vars>>

---------------------------------------------------------------------------
(* Specifications.                                                         *)

\* the scorer's variables while get_recommendations runs, and conversely
IdleScore ==
    /\ args  = [user_ingredients |-> <<>>, recipe_ingredients |-> <<>>,
                substitutions_allowed |-> FALSE, user_willing_to_buy_more |-> FALSE,
                beta |-> beta_default]
    /\ frame = NoFrame
    /\ ret   = RInt(0)

FreshRec(p, inp) ==
    /\ prefs = p
    /\ recipe_db = inp.corpus
    /\ le_classes = inp.classes
    /\ oracle = [cuisine |-> CuisineLabels, meal |-> MealLabels]
    /\ user_ingredients = <<>>
    /\ allow_substitutions = FALSE
    /\ use_grocery = FALSE
    /\ selected_cuisine = <<>>
    /\ selected_meal_type = <<>>
    /\ cuisines = <<>>
    /\ meal_types = <<>>
    /\ matching_recipes = <<>>
    /\ ingr_list = <<>>
    /\ scores = <<>>
    /\ predictions = <<>>
    /\ model_score = <<>>
    /\ final_score = <<>>
    /\ ranked_recipes = <<>>
    /\ infer_calls = 0
    /\ raised = "none"
    /\ log = ""
    /\ result = NoResult

StartRec(p, inp) ==
    /\ pc = "start"
    /\ FreshRec(p, inp)

\* the generator tab while it is not on screen
NoEvent == [kind |-> "none", i |-> 0, text |-> <<>>]

IdleTab ==
    /\ current_ingredients = <<>>
    /\ ingredient_processed = FALSE
    /\ pantry = <<>>
    /\ grocery = <<>>
    /\ user_prefs = prefs
    /\ uploaded_file = "None"
    /\ stage = "idle"
    /\ event = NoEvent
    /\ status = ""
    /\ recognized = "not called"
    /\ tab_prefs = prefs
    /\ combined_ingredients = <<>>
    /\ notice = ""

\* a request: any preferences, any input
Init ==
    /\ IdleScore
    /\ bsize = batch_size
    /\ \E p \in PrefsSet, inp \in Inputs : StartRec(p, inp)
    /\ IdleTab

Next ==
    \/ Load
    \/ PredictCuisine
    \/ PredictMealType
    \/ Filter
    \/ ScoreRecipe
    \/ DropInfeasible
    \/ Infer
    \/ ModelScore
    \/ Rank

Spec == Init /\ [][Next]_vars

\* a call of the scorer: any two lists over the vocabularies, any flags
InitScore ==
    /\ args \in [user_ingredients : SeqsUpTo(UserVocabulary, MaxUser),
                 recipe_ingredients : SeqsUpTo(RecipeVocabulary, MaxRecipe),
                 substitutions_allowed : BOOLEAN,
                 user_willing_to_buy_more : BOOLEAN,
                 beta : {beta_default}]
    /\ frame = NoFrame
    /\ ret = RInt(0)
    /\ bsize = batch_size
    /\ StartRec([cuisine |-> Italian, meal_type |-> <<"S","n","a","c","k">>,
                 allow_substitutions |-> FALSE, use_grocery |-> FALSE],
                [corpus |-> <<>>, classes |-> <<>>])
    /\ IdleTab

Call ==
    /\ frame = NoFrame
    /\ frame' = score_frame(args.user_ingredients, args.recipe_ingredients,
                            args.substitutions_allowed,
                            args.user_willing_to_buy_more, args.beta)
    /\ ret' = frame'.ret
    /\ UNCHANGED <<args, rec_vars, tab_vars>>

NextScore == Call

SpecScore == InitScore /\ [][NextScore]_vars

---------------------------------------------------------------------------
(* The corpus filter on its own, for every batch size.                     *)

MaxBatch        == 3    \* largest batch size tried
MaxFilterCorpus == 4    \* longest corpus filtered

\* pool rows whose cuisine and meal labels differ in spelling or in value
FilterPool == {2, 4, 5}

FilterCorpora ==
    UNION {{[k \in 1..n |-> Row(k, c[k])] : c \in [1..n -> FilterPool]} :
              n \in 1..MaxFilterCorpus}

InitFilter ==
    /\ IdleScore
    /\ bsize \in 1..MaxBatch
    /\ \E p \in PrefsSet, c \in FilterCorpora :
          /\ ~p.use_grocery
          /\ ~p.allow_substitutions
          /\ StartRec(p, [corpus |-> c, classes |-> Ids(c)])
    /\ IdleTab

NextFilter ==
    \/ Load
    \/ PredictCuisine
    \/ PredictMealType
    \/ Filter

SpecFilter == InitFilter /\ [][NextFilter]_vars

---------------------------------------------------------------------------
(* The generator tab: strings and lists.                                   *)

MaxDetected == 2    \* longest list the recognizer returns

RECURSIVE split(_, _)
\* s.split(sep) for a separator of one character
split(s, sep) ==
    IF \A k \in DOMAIN s : s[k] # sep
    THEN <<s>>
    ELSE LET at == CHOOSE k \in DOMAIN s : s[k] = sep /\ \A h \in 1..(k - 1) : s[h] # sep
         IN  <<SubSeq(s, 1, at - 1)>> \o split(SubSeq(s, at + 1, Len(s)), sep)

startswith(s, c) == Len(s) > 0 /\ s[1] = c

RECURSIVE additions_of(_, _)
\* lines 159-160, from piece k on
additions_of(pieces, k) ==
    IF k > Len(pieces)
    THEN <<>>
    ELSE (IF strip(pieces[k]) # <<>> /\ ~startswith(strip(pieces[k]), "-")
          THEN <<lower(strip(pieces[k]))>> ELSE <<>>)
         \o additions_of(pieces, k + 1)

RECURSIVE removals_of(_, _)
\* lines 163-164, from piece k on: x.strip().lower()[1:]
removals_of(pieces, k) ==
    IF k > Len(pieces)
    THEN <<>>
    ELSE (IF strip(pieces[k]) # <<>> /\ startswith(strip(pieces[k]), "-")
          THEN <<Tail(lower(strip(pieces[k])))>> ELSE <<>>)
         \o removals_of(pieces, k + 1)

additions(new_ingredient) == additions_of(split(new_ingredient, ","), 1)

removals(new_ingredient) == removals_of(split(new_ingredient, ","), 1)

RECURSIVE append_new(_, _, _)
\* for x in items: if x not in list: list.append(x), from item k on
append_new(list, items, k) ==
    IF k > Len(items)
    THEN list
    ELSE append_new(IF items[k] \in Range(list) THEN list ELSE Append(list, items[k]),
                    items, k + 1)

RECURSIVE not_in(_, _)
\* [ing for ing in list if ing not in gone]
not_in(list, gone) ==
    IF list = <<>>
    THEN <<>>
    ELSE (IF Head(list) \in gone THEN <<>> ELSE <<Head(list)>>) \o not_in(Tail(list), gone)

\* line 96
new_ingredients(detected) == [k \in DOMAIN detected |-> detected[k][1]]

\* lines 98-100
with_detected(current, detected) == append_new(current, new_ingredients(detected), 1)

\* lines 149-152
without_clicked(current, ingredients_to_remove) ==
    not_in(current, Range(ingredients_to_remove))

RECURSIVE nonempty(_)
\* the additions that pass "if ing" at line 168
nonempty(items) ==
    IF items = <<>>
    THEN <<>>
    ELSE (IF Head(items) # <<>> THEN <<Head(items)>> ELSE <<>>) \o nonempty(Tail(items))

\* lines 159-174
updated(current, new_ingredient) ==
    not_in(append_new(current, nonempty(additions(new_ingredient)), 1),
           Range(removals(new_ingredient)))

\* lines 187-201
combined(current, pantry_items, grocery_items) ==
    append_new(append_new(current, pantry_items, 1), grocery_items, 1)

\* variant: the recognizer runs whenever a file is there
should_recognize_every_upload(file, processed) == file # "None"

\* line 78
should_recognize(file, processed) == file # "None" /\ ~processed

\* what the user types: an addition and a removal, the same ingredient added
\* and removed with and without a blank after the "-", empty pieces and a
\* repeated addition, a removal in capitals, nothing
TextInputs ==
    {<<"s","a","l","t",",","-","m","i","l","k">>,
     <<"m","i","l","k",","," ","-"," ","m","i","l","k">>,
     <<"S","a","l","t"," ",","," ","-","s","a","l","t">>,
     <<"m","i","l","k",",",",","m","i","l","k">>,
     <<"-","S","a","l","t">>,
     <<>>}

\* the names the recognizer knows
DetectedNames == {<<"m","i","l","k">>, <<"S","a","l","t">>}

\* recognizer.recognize(image): pairs (ingredient, probability)
Detections ==
    {[k \in DOMAIN names |-> <<names[k], Rat(10 - k, 10)>>] :
        names \in SeqsUpTo(DetectedNames, MaxDetected)}

\* the preferences stored for the user, the pantry and the grocery list
TabPrefsSet ==
    [cuisine : {Italian},
     meal_type : {<<"B","r","e","a","k","f","a","s","t">>},
     allow_substitutions : {TRUE},
     use_grocery : BOOLEAN]

Pantries == {<<>>, << <<"s","a","l","t">> >>}

Groceries == {<< <<"f","l","o","u","r">> >>}

\* the recipe data base behind the tab: two recipes of the selected kind
TabCorpus == <<Row(1, 1), Row(2, 6)>>

---------------------------------------------------------------------------
(* The generator tab: the script run of render_generator_tab.              *)

\* the locals of get_recommendations at its entry, or with no call under way
RecBecomes(at, p) ==
    /\ pc' = at
    /\ prefs' = p
    /\ user_ingredients' = <<>>
    /\ allow_substitutions' = FALSE
    /\ use_grocery' = FALSE
    /\ selected_cuisine' = <<>>
    /\ selected_meal_type' = <<>>
    /\ cuisines' = <<>>
    /\ meal_types' = <<>>
    /\ matching_recipes' = <<>>
    /\ ingr_list' = <<>>
    /\ scores' = <<>>
    /\ predictions' = <<>>
    /\ model_score' = <<>>
    /\ final_score' = <<>>
    /\ ranked_recipes' = <<>>
    /\ infer_calls' = 0
    /\ raised' = "none"
    /\ log' = ""
    /\ result' = NoResult
    /\ UNCHANGED <<recipe_db, le_classes, oracle, bsize>>

\* lines 53-75: a widget event starts a script run from the top
StartRun(e) ==
    /\ stage = "idle"
    /\ stage' = "recognize"
    /\ event' = e
    /\ status' = ""
    /\ recognized' = "not called"
    /\ tab_prefs' = user_prefs
    /\ combined_ingredients' = <<>>
    /\ notice' = ""
    /\ RecBecomes("idle", user_prefs)
    /\ UNCHANGED <<current_ingredients, ingredient_processed, pantry, grocery,
                   user_prefs, score_vars>>

Click(kind) == [kind |-> kind, i |-> 0, text |-> <<>>]

\* lines 68-72: a file is put into the uploader
Upload ==
    /\ uploaded_file = "None"
    /\ uploaded_file' = "photo"
    /\ StartRun(NoEvent)

\* lines 68-72: the file is taken out of the uploader
RemoveFile ==
    /\ uploaded_file # "None"
    /\ uploaded_file' = "None"
    /\ StartRun(NoEvent)

\* any other widget of the page makes the script run again
Rerender ==
    /\ StartRun(NoEvent)
    /\ UNCHANGED uploaded_file

\* line 127: the button is on the page if a file is there and was processed
ClickReset ==
    /\ uploaded_file # "None"
    /\ ingredient_processed
    /\ StartRun(Click("reset"))
    /\ UNCHANGED uploaded_file

\* line 144: one delete button per ingredient shown
ClickDelete ==
    /\ \E i \in DOMAIN current_ingredients :
          StartRun([kind |-> "delete", i |-> i, text |-> <<>>])
    /\ UNCHANGED uploaded_file

\* lines 156-157: the text box and its button are shown with a non-empty list
ClickUpdate ==
    /\ current_ingredients # <<>>
    /\ \E text \in TextInputs :
          StartRun([kind |-> "update", i |-> 0, text |-> text])
    /\ UNCHANGED uploaded_file

\* line 179
ClickClear ==
    /\ current_ingredients # <<>>
    /\ StartRun(Click("clear"))
    /\ UNCHANGED uploaded_file

\* line 211
ClickGenerate ==
    /\ StartRun(Click("generate"))
    /\ UNCHANGED uploaded_file

\* lines 78-116: the uploaded image is analysed
Recognize ==
    /\ stage = "recognize"
    /\ stage' = "widgets"
    /\ IF should_recognize(uploaded_file, ingredient_processed)
       THEN \E outcome \in {"unreadable", "raises", "returns"} :
              CASE outcome = "unreadable" ->      \* Image.open raises, line 109
                      /\ status' = "Error processing image"
                      /\ UNCHANGED <<current_ingredients, ingredient_processed,
                                     recognized>>
                [] outcome = "raises" ->          \* recognize raises, line 105
                      /\ status' = "Error analyzing image"
                      /\ recognized' = "raised"
                      /\ UNCHANGED <<current_ingredients, ingredient_processed>>
                [] OTHER ->
                      \E detected \in Detections :
                          /\ current_ingredients' =
                                 with_detected(current_ingredients, detected)
                          /\ ingredient_processed' = TRUE
                          /\ status' = "Detected"
                          /\ recognized' = "returned"
       ELSE UNCHANGED <<current_ingredients, ingredient_processed, status,
                        recognized>>
    /\ UNCHANGED <<pantry, grocery, user_prefs, uploaded_file, event, tab_prefs,
                   combined_ingredients, notice, rec_vars, score_vars>>

\* st.rerun(): the script run is abandoned and started again, no widget clicked
Rerun ==
    /\ stage' = "recognize"
    /\ event' = NoEvent
    /\ status' = ""
    /\ recognized' = "not called"
    /\ UNCHANGED <<pantry, grocery, user_prefs, uploaded_file, tab_prefs,
                   combined_ingredients, notice, rec_vars, score_vars>>

\* lines 126-129
Reset ==
    /\ stage = "widgets"
    /\ event.kind = "reset"
    /\ uploaded_file # "None" /\ ingredient_processed
    /\ ingredient_processed' = FALSE
    /\ Rerun
    /\ UNCHANGED current_ingredients

\* lines 141-153
Delete ==
    /\ stage = "widgets"
    /\ event.kind = "delete"
    /\ event.i \in DOMAIN current_ingredients
    /\ current_ingredients' =
           without_clicked(current_ingredients, <<current_ingredients[event.i]>>)
    /\ Rerun
    /\ UNCHANGED ingredient_processed

\* lines 156-176
Update ==
    /\ stage = "widgets"
    /\ event.kind = "update"
    /\ current_ingredients # <<>>
    /\ event.text # <<>>
    /\ current_ingredients' = updated(current_ingredients, event.text)
    /\ Rerun
    /\ UNCHANGED ingredient_processed

\* lines 179-181
Clear ==
    /\ stage = "widgets"
    /\ event.kind = "clear"
    /\ current_ingredients # <<>>
    /\ current_ingredients' = <<>>
    /\ Rerun
    /\ UNCHANGED ingredient_processed

\* lines 187-201, with the two checkboxes as the user left them
Combined(pantry_checked, grocery_checked) ==
    combined(current_ingredients,
             IF pantry # <<>> /\ pantry_checked THEN pantry ELSE <<>>,
             IF tab_prefs.use_grocery /\ grocery # <<>> /\ grocery_checked
             THEN grocery ELSE <<>>)

\* no button of lines 126-181 reports a click in this script run
NoHandler ==
    \/ event.kind = "none"
    \/ event.kind = "reset" /\ ~(uploaded_file # "None" /\ ingredient_processed)
    \/ event.kind = "delete" /\ event.i \notin DOMAIN current_ingredients
    \/ event.kind = "update" /\ (current_ingredients = <<>> \/ event.text = <<>>)
    \/ event.kind = "clear" /\ current_ingredients = <<>>

\* lines 126-211: the page is drawn to its end, Generate Recipe not clicked
Finish ==
    /\ stage = "widgets"
    /\ NoHandler
    /\ \E pantry_checked, grocery_checked \in BOOLEAN :
          combined_ingredients' = Combined(pantry_checked, grocery_checked)
    /\ stage' = "idle"
    /\ UNCHANGED <<current_ingredients, ingredient_processed, pantry, grocery,
                   user_prefs, uploaded_file, event, status, recognized,
                   tab_prefs, notice, rec_vars, score_vars>>

\* lines 187-222: Generate Recipe.  Whether get_user_preferences() hands out
\* the object the tab wrote to, or a fresh one, is not decided here.
Generate ==
    /\ stage = "widgets"
    /\ event.kind = "generate"
    /\ \E pantry_checked, grocery_checked, shared \in BOOLEAN :
          LET items == Combined(pantry_checked, grocery_checked)
          IN  /\ combined_ingredients' = items
              /\ IF items = <<>>
                 THEN /\ notice' = "Please upload an image and confirm your ingredients before generating."
                      /\ stage' = "idle"
                      /\ UNCHANGED <<tab_prefs, rec_vars>>
                 ELSE /\ tab_prefs' = [ingredients |-> items,
                                       allow_substitutions |-> FALSE] @@ tab_prefs
                      /\ stage' = "generate"
                      /\ RecBecomes("start", IF shared THEN tab_prefs' ELSE user_prefs)
                      /\ UNCHANGED notice
    /\ UNCHANGED <<current_ingredients, ingredient_processed, pantry, grocery,
                   user_prefs, uploaded_file, event, status, recognized, score_vars>>

\* lines 224-277: "not top_recipe" on the row returned raises
Show ==
    /\ stage = "generate"
    /\ pc = "done"
    /\ notice' = IF result.kind = "rows"
                 THEN "ValueError"
                 ELSE "No matching recipes found."
    /\ stage' = "idle"
    /\ UNCHANGED <<current_ingredients, ingredient_processed, pantry, grocery,
                   user_prefs, uploaded_file, event, status, recognized,
                   tab_prefs, combined_ingredients, rec_vars, score_vars>>

\* lines 57-61: a new session
InitTab ==
    /\ IdleScore
    /\ bsize = batch_size
    /\ pc = "idle"
    /\ \E p \in TabPrefsSet :
          /\ FreshRec(p, [corpus |-> TabCorpus, classes |-> Ids(TabCorpus)])
          /\ user_prefs = p
          /\ tab_prefs = p
    /\ current_ingredients = <<>>
    /\ ingredient_processed = FALSE
    /\ pantry \in Pantries
    /\ grocery \in Groceries
    /\ uploaded_file = "None"
    /\ stage = "idle"
    /\ event = NoEvent
    /\ status = ""
    /\ recognized = "not called"
    /\ combined_ingredients = <<>>
    /\ notice = ""

NextTab ==
    \/ Upload
    \/ RemoveFile
    \/ Rerender
    \/ ClickReset
    \/ ClickDelete
    \/ ClickUpdate
    \/ ClickClear
    \/ ClickGenerate
    \/ Recognize
    \/ Reset
    \/ Delete
    \/ Update
    \/ Clear
    \/ Finish
    \/ Generate
    \/ Load
    \/ PredictCuisine
    \/ PredictMealType
    \/ Filter
    \/ ScoreRecipe
    \/ DropInfeasible
    \/ Infer
    \/ ModelScore
    \/ Rank
    \/ Show

SpecTab == InitTab /\ [][NextTab]_vars

---------------------------------------------------------------------------
(* Properties of ingredient_match_score, under SpecScore.                  *)

Returned == frame.branch # "none"

\* the user's explicit set and the recipe's occurrences, written out
Explicit == {normalize(args.user_ingredients[j]) : j \in DOMAIN args.user_ingredients}

Occurrences == DOMAIN args.recipe_ingredients

Norm(k) == normalize(args.recipe_ingredients[k])

\* C1: in strict mode the score is 1.0 when every normalized recipe
\* ingredient that is not a default ingredient is in the normalized user
\* set, and 0.0 otherwise, whatever the substitutions flag and however many
\* default ingredients the recipe lists.
C1_StrictGate ==
    (Returned /\ ~args.user_willing_to_buy_more) =>
        ret = IF \A k \in Occurrences :
                     Norm(k) \notin DEFAULT_INGREDIENTS => Norm(k) \in Explicit
              THEN <<1, 1>>
              ELSE <<0, 1>>

\* a strict call that scores 1.0 on a recipe with a default ingredient and a
\* non-default one the user spelled differently
C1_Witness ==
    /\ Returned
    /\ ~args.user_willing_to_buy_more
    /\ args.substitutions_allowed
    /\ args.user_ingredients = << <<"F","L","O","U","R"," ">> >>
    /\ args.recipe_ingredients = << <<"S","a","l","t">>, <<"f","l","o","u","r">> >>
    /\ ret = <<1, 1>>

\* C2: the score returned lies in [0, 1], for every list (repeated entries
\* included) and both values of both flags.
C2_Bounded ==
    Returned => (RLe(<<0, 1>>, ret) /\ RLe(ret, <<1, 1>>))

\* a flexible call on a recipe with a repeated entry whose uncapped score
\* exceeds 1
C2_Witness ==
    /\ frame.branch = "flexible"
    /\ \E a, b \in Occurrences : a # b /\ Norm(a) = Norm(b)
    /\ RLt(<<1, 1>>, frame.final_score)
    /\ ret = <<1, 1>>

Direct == {k \in Occurrences : Norm(k) \in Explicit \cup DEFAULT_INGREDIENTS}

Substituted ==
    {k \in Occurrences \ Direct :
        /\ args.substitutions_allowed
        /\ Norm(k) \in DOMAIN SUBSTITUTIONS
        /\ \E j \in DOMAIN SUBSTITUTIONS[Norm(k)] :
               normalize(SUBSTITUTIONS[Norm(k)][j]) \in Explicit \cup DEFAULT_INGREDIENTS}

\* C3: in flexible mode with a non-empty recipe list, base_score is
\* (1.0 per occurrence found in explicit + defaults, 0.5 per other occurrence
\* with a substitute in that set when substitutions are allowed, 0 for the
\* rest) divided by the number of occurrences.
C3_BaseScore ==
    frame.branch = "flexible" =>
        /\ frame.total = Cardinality(Occurrences)
        /\ frame.base_score[1] * 2 * frame.total
              = (2 * Cardinality(Direct) + Cardinality(Substituted)) * frame.base_score[2]
        /\ (~args.substitutions_allowed) =>
              frame.matched = <<Cardinality(Direct), 1>>

\* almond milk for milk earns half credit
C3_Witness ==
    /\ frame.branch = "flexible"
    /\ args.substitutions_allowed
    /\ args.user_ingredients = << <<" ","A","l","m","o","n","d"," ","M","i","l","k">> >>
    /\ args.recipe_ingredients = << <<"m","i","l","k">> >>
    /\ frame.base_score = <<1, 2>>
    /\ ret = <<1, 2>>

UsedExplicit == {k \in Occurrences : Norm(k) \in Explicit}

\* C4: in flexible mode (non-empty recipe list, the only case with a
\* base_score) the score is min(1, base_score * (1 + beta * bonus)), beta =
\* 1/5, bonus = occurrences in explicit / |explicit|, 0 for an empty explicit
\* set:  ret = min(1, base * (5 * |explicit| + used) / (5 * |explicit|)).
C4_FinalScore ==
    frame.branch = "flexible" =>
        LET n    == Cardinality(Explicit)
            used == Cardinality(UsedExplicit)
            b    == frame.base_score
            v    == IF n = 0 THEN b ELSE Rat(b[1] * (5 * n + used), b[2] * 5 * n)
        IN  /\ frame.bonus[1] * n = used * frame.bonus[2]
            /\ n = 0 => frame.bonus = <<0, 1>>
            /\ ret = IF RLe(v, <<1, 1>>) THEN v ELSE <<1, 1>>

\* explicit {milk}, recipe [milk, flour]: 0.5 * (1 + 0.2 * 1.0) = 0.6
C4_Witness ==
    /\ frame.branch = "flexible"
    /\ args.user_ingredients = << <<"m","i","l","k">> >>
    /\ args.recipe_ingredients = << <<"m","i","l","k">>, <<"f","l","o","u","r">> >>
    /\ frame.base_score = <<1, 2>>
    /\ frame.bonus = <<1, 1>>
    /\ ret = <<3, 5>>

---------------------------------------------------------------------------
(* Properties of get_recommendations, under Spec.                          *)

NoFeasibleMsg == "No recipes found that use only your ingredients."

\* the rows whose predicted labels, lowercased, equal the targets
FilterKept ==
    {k \in DOMAIN recipe_db :
        /\ k \in DOMAIN cuisines
        /\ k \in DOMAIN meal_types
        /\ lower(cuisines[k]) = selected_cuisine
        /\ lower(meal_types[k]) = selected_meal_type}

\* every ingredient a recipe lists in either field
AllIngredients(recipe) ==
    Range(recipe.ingredients) \cup Range(recipe.ingredients_raw.val)

\* no non-default ingredient is missing from the list the scorer is given
Feasible(recipe) ==
    \A x \in AllIngredients(recipe) :
        normalize(x) \notin DEFAULT_INGREDIENTS =>
            \E j \in DOMAIN user_ingredients : normalize(user_ingredients[j]) = normalize(x)

\* the strict-mode drop is behind
PastDrop == pc \in {"infer", "model_score", "sort"} \/ infer_calls > 0

ReturnedRows == pc = "done" /\ result.kind = "rows"

\* the recipes returned, as rows of recipe_db
ReturnedRecipes ==
    {recipe_db[matching_recipes[p]] : p \in {result.top} \cup Range(result.others)}

\* C5: the list handed to the scorer holds every ingredient of ingredients
\* and ingredients_raw and no two entries with the same normalized form.
C5_EffectiveListIsUnion ==
    (pc = "score" /\ Len(scores) > 0) =>
        LET recipe == recipe_db[matching_recipes[Len(scores)]]
        IN  /\ \A x \in AllIngredients(recipe) :
                  \E k \in DOMAIN ingr_list : normalize(ingr_list[k]) = normalize(x)
            /\ \A a, b \in DOMAIN ingr_list :
                  a # b => normalize(ingr_list[a]) # normalize(ingr_list[b])

\* C6: in strict mode every recipe scored <= 0 is dropped before ranking, so
\* the survivors are exactly the filtered recipes with no non-default
\* ingredient missing, and so are all recipes returned; if none survives the
\* call returns None, None without an exception; in flexible mode every
\* filtered recipe stays.
C6_StrictDrop ==
    /\ (PastDrop /\ ~use_grocery) =>
          /\ \A k \in DOMAIN scores : RLt(<<0, 1>>, scores[k])
          /\ Range(matching_recipes) = {k \in FilterKept : Feasible(recipe_db[k])}
    /\ (ReturnedRows /\ ~use_grocery) =>
          \A recipe \in ReturnedRecipes : Feasible(recipe)
    /\ (/\ pc = "done" /\ raised = "none" /\ ~use_grocery
        /\ FilterKept # {}
        /\ \A k \in FilterKept : ~Feasible(recipe_db[k])) =>
          (result = NoneNone /\ log = NoFeasibleMsg)
    /\ (PastDrop /\ use_grocery) =>
          /\ Range(matching_recipes) = FilterKept
          /\ Len(matching_recipes) = Cardinality(FilterKept)

\* a strict request that dropped a filtered recipe and returned a top and
\* an alternate
C6_Witness ==
    /\ ReturnedRows
    /\ ~use_grocery
    /\ Len(matching_recipes) < Cardinality(FilterKept)
    /\ result.others # <<>>

\* C7: when the corpus filter keeps no recipe, or the strict-mode drop leaves
\* none, the call returns None, None and infer is not invoked; infer is
\* invoked only with at least one recipe left by both stages.
C7_NoInferOnEmpty ==
    /\ infer_calls > 0 => (FilterKept # {} /\ matching_recipes # <<>>)
    /\ (pc = "done" /\ FilterKept = {}) => (result = NoneNone /\ infer_calls = 0)
    /\ (pc = "done" /\ matching_recipes = <<>>) =>
          (result = NoneNone /\ infer_calls = 0)
    /\ log = NoFeasibleMsg => (FilterKept # {} /\ matching_recipes = <<>>)
    /\ (log = "No matching recipes found") => FilterKept = {}

\* the classifiers answered for a corpus of two, the filter kept nothing
C7_Witness ==
    /\ pc = "done"
    /\ raised = "none"
    /\ Len(recipe_db) = 2
    /\ Len(meal_types) = 2
    /\ FilterKept = {}
    /\ log = "No matching recipes found"
    /\ result = NoneNone
    /\ infer_calls = 0

\* C8: final_score = 0.95 * ingredient_score + 0.05 * model_score; the ranked
\* rows are all survivors in non-increasing final_score; top is the first;
\* the alternates are the rows at positions 1..10 of the ranking.
C8_Ranking ==
    /\ (pc = "done" /\ raised = "none" /\ infer_calls > 0) => result.kind = "rows"
    /\ ReturnedRows =>
          LET n == Len(ranked_recipes)
          IN  /\ DOMAIN final_score = DOMAIN matching_recipes
              /\ \A k \in DOMAIN final_score :
                    LET s == scores[k]
                        m == model_score[k]
                    IN  final_score[k] =
                            Rat(19 * s[1] * m[2] + m[1] * s[2], 20 * s[2] * m[2])
              /\ n = Len(matching_recipes)
              /\ Range(ranked_recipes) = DOMAIN matching_recipes
              /\ \A a \in 1..(n - 1) :
                    RLe(final_score[ranked_recipes[a + 1]], final_score[ranked_recipes[a]])
              /\ result.top = ranked_recipes[1]
              /\ \A k \in DOMAIN final_score :
                    RLe(final_score[k], final_score[result.top])
              /\ Len(result.others) = (IF n - 1 < 10 THEN n - 1 ELSE 10)
              /\ \A j \in DOMAIN result.others :
                    result.others[j] = ranked_recipes[j + 1]
              /\ result.top \notin Range(result.others)

\* twelve survivors: ten alternates, the last ranked row left out
C8_Witness ==
    /\ ReturnedRows
    /\ Len(ranked_recipes) >= 12
    /\ Len(result.others) = 10
    /\ ranked_recipes[12] \notin Range(result.others)

\* C9: rows with equal final_score keep their pre-sort order in the ranking.
C9_StableRanking ==
    ReturnedRows =>
        \A a, b \in DOMAIN ranked_recipes :
            (a < b /\ final_score[ranked_recipes[a]] = final_score[ranked_recipes[b]])
                => ranked_recipes[a] < ranked_recipes[b]

OracleFailures ==
    {"cuisine_clf.predict raised", "meal_clf.predict raised", "infer raised",
     "ValueError", "IndexError"}

\* C10: after an oracle call threw or returned a malformed shape, what the
\* caller gets differs from what it gets in the two empty-result outcomes.
C10_OracleFailureSurfaced ==
    (pc = "done" /\ raised \in OracleFailures) => result # NoneNone

---------------------------------------------------------------------------
(* Properties of the corpus filter, under SpecFilter.                      *)

\* both label columns are assigned
Labelled == pc \in {"filter", "score"} \/ (pc = "done" /\ log = "No matching recipes found")

\* the mask was applied
Filtered == pc = "score" \/ (pc = "done" /\ log = "No matching recipes found")

\* what the oracles answer for row k's own feature text
OwnCuisine(k) == oracle.cuisine[recipe_db[k].text]

OwnMealType(k) == oracle.meal[recipe_db[k].text]

\* C11: whatever the batch size, row k is labelled with the oracles' answers
\* for row k's own feature text, and the filter keeps, in corpus order,
\* exactly the rows whose two labels equal the targets up to case.
C11_FilterByOwnLabels ==
    /\ Labelled =>
          /\ Len(cuisines) = Len(recipe_db)
          /\ Len(meal_types) = Len(recipe_db)
          /\ \A k \in DOMAIN recipe_db :
                cuisines[k] = OwnCuisine(k) /\ meal_types[k] = OwnMealType(k)
    /\ Filtered =>
          /\ \A a, b \in DOMAIN matching_recipes :
                a < b => matching_recipes[a] < matching_recipes[b]
          /\ Range(matching_recipes) =
                {k \in DOMAIN recipe_db :
                    /\ lower(OwnCuisine(k)) = lower(prefs.cuisine)
                    /\ lower(OwnMealType(k)) = lower(selected_meal_type)}

\* four recipes labelled in batches of three: the last one, alone in its
\* batch, is kept and an earlier one is not
C11_Witness ==
    /\ pc = "score"
    /\ bsize = 3
    /\ Len(recipe_db) = 4
    /\ 4 \in Range(matching_recipes)
    /\ Len(matching_recipes) < 4

---------------------------------------------------------------------------
(* Properties of the model-score lookup, under Spec.                       *)

\* lines 316-330 ran without an exception
ModelScored == pc = "sort" \/ (pc = "done" /\ log = "Top recipe")

\* C13: a surviving recipe whose id is not among le_recipe.classes_ has
\* model_score 0, final_score 0.95 * ingredient_score and stays in the
\* ranking; one whose id is a class has the entry of its own prediction row
\* at the column of its own id.
C13_OwnModelScore ==
    ModelScored =>
        \A k \in DOMAIN matching_recipes :
            IF MatchingIds[k] \in Range(le_classes)
            THEN \E j \in DOMAIN le_classes :
                    /\ le_classes[j] = MatchingIds[k]
                    /\ model_score[k] = predictions[k][j]
            ELSE /\ model_score[k] = RInt(0)
                 /\ final_score[k] = RMul(scores[k], <<19, 20>>)
                 /\ pc = "done" => k \in Range(ranked_recipes)

\* a ranking with one recipe unknown to the relevance model and one known
\* to it whose column differs from its row, on scores that differ along
\* its row
C13_Witness ==
    /\ pc = "done"
    /\ log = "Top recipe"
    /\ \E k \in DOMAIN matching_recipes : MatchingIds[k] \notin Range(le_classes)
    /\ \E k \in DOMAIN matching_recipes :
          /\ MatchingIds[k] \in Range(le_classes)
          /\ where(le_classes, MatchingIds[k], 1)[1] # k
          /\ \A j \in DOMAIN le_classes :
                j # where(le_classes, MatchingIds[k], 1)[1] =>
                    predictions[k][j] # model_score[k]
          /\ Len(le_classes) > 1

---------------------------------------------------------------------------
(* Properties of the generator tab, under SpecTab.                         *)

\* the scoring loop of a request made from the tab has scored a recipe
ScoredForTab == stage = "generate" /\ pc = "score" /\ Len(scores) > 0

\* C12: the ingredient_score of a recipe is the scorer's value for the
\* ingredients of this request (the list the tab put into the preferences),
\* the recipe's effective ingredient list and the user's own two flags.
C12_ScoredAgainstRequest ==
    ScoredForTab =>
        scores[Len(scores)] =
            ingredient_match_score(combined_ingredients, ingr_list,
                                   user_prefs.allow_substitutions,
                                   user_prefs.use_grocery, beta_default)

NoDuplicates(list) == \A a, b \in DOMAIN list : a # b => list[a] # list[b]

\* the update handler of lines 157-176 takes this step
UpdateStep == stage = "widgets" /\ event.kind = "update" /\ stage' = "recognize"

\* the pieces of the text box that are not blank
Pieces(text) == {strip(x) : x \in Range(split(text, ","))} \ {<<>>}

\* the ingredients a text names as additions, and as "-" removals
NamedAdditions(text) == {normalize(x) : x \in {y \in Pieces(text) : ~startswith(y, "-")}}

NamedRemovals(text) == {normalize(Tail(x)) : x \in {y \in Pieces(text) : startswith(y, "-")}}

\* C14 (first half): current_ingredients never holds the same string twice.
C14_NoDuplicates == NoDuplicates(current_ingredients)

\* C14: after every step of the tab current_ingredients holds no string
\* twice, and an ingredient that one update names both as an addition and as
\* a "-" removal is not in the list after that update.
C14_UniqueAndRemoved ==
    [][/\ NoDuplicates(current_ingredients')
       /\ UpdateStep =>
             \A name \in NamedAdditions(event.text) \cap NamedRemovals(event.text) :
                 name \notin Range(current_ingredients')]_vars

\* the recognition phase of lines 78-116 takes this step
RecognizeStep == stage = "recognize" /\ stage' = "widgets"

\* C15: the recognizer is called in a script run only with a file uploaded
\* and ingredient_processed false; a call that returns sets the flag; while
\* the flag is set no script run calls the recognizer, and only the Reset
\* Image Analysis handler clears the flag; a failed analysis leaves the flag
\* and current_ingredients as they were.
C15_RecognizeOncePerUpload ==
    [][/\ recognized' \in {"returned", "raised"} =>
             \/ UNCHANGED recognized
             \/ RecognizeStep /\ uploaded_file # "None" /\ ~ingredient_processed
       /\ RecognizeStep /\ recognized' = "returned" => ingredient_processed'
       /\ RecognizeStep /\ ingredient_processed => recognized' = "not called"
       /\ ingredient_processed /\ ~ingredient_processed' =>
             stage = "widgets" /\ event.kind = "reset"
       /\ RecognizeStep /\ status' \in {"Error analyzing image", "Error processing image"} =>
             UNCHANGED <<ingredient_processed, current_ingredients>>]_vars

\* a script run for a click, with the upload already analysed, in which the
\* recognizer was not called
C15_Witness ==
    /\ stage = "widgets"
    /\ event.kind = "update"
    /\ uploaded_file # "None"
    /\ ingredient_processed
    /\ current_ingredients # <<>>
    /\ recognized = "not called"

===========================================================================
